---- MODULE Spec2Model ----
(***************************************************************************)
(* Model of the Larimer County COVID-19 dashboard (src/app.py): the        *)
(* normalizer (fix_bad_dates, create_age_buckets, format_column,           *)
(* create_cases_df, create_deaths_df) and the aggregator views computed by *)
(* update_figure (by_day_scatter, cumulative_by_day_scatter,               *)
(* by_day_by_city_scatter, cumulative_by_city, histogram,                  *)
(* histogram_by_city), and the callbacks of a reporting cycle (update_date, *)
(* update_dropdown, update_figure) over the cached update_metrics.         *)
(*                                                                         *)
(* A data frame is a sequence of records (its rows, in frame order).  A    *)
(* missing value (pandas NaN) is the value NaN.  A calendar day is an      *)
(* integer day number.  Chart layout, colours and the 7-day moving average *)
(* trace are not modelled: no view's rows depend on them.                  *)
(***************************************************************************)
EXTENDS Integers, Sequences, FiniteSets, TLC

VARIABLES
    cases_df,    \* the cases frame update_metrics returned (app.py:143)
    deaths_df,   \* the deaths frame update_metrics returned (app.py:149)
    cities,      \* the value of the city dropdown handed to update_figure
    figures,     \* what the last run of update_figure produced
    op,          \* the normalizer function last applied
    arg,         \* its argument
    ret,         \* its result
    cache,       \* the entries of the flask_caching Cache (app.py:136, 266)
    layout,      \* the component properties the callbacks write
    cycle        \* the callbacks of the reporting cycle under way

session == <<cache, layout, cycle>>
vars == <<cases_df, deaths_df, cities, figures, op, arg, ret, cache, layout, cycle>>

----------------------------------------------------------------------------
(* Bounds of the model *)

MaxRows == 3
MaxDay == 3
MaxDeaths == 2
MaxHistCases == 2

----------------------------------------------------------------------------
(* Values *)

NaN == "NaN"
None == "None"

\* An optional list (layout_overrides["xaxis"]["categoryarray"], the
\* dropdown's value): None, or the list.
NoList == [given |-> FALSE, list |-> <<>>]
List(l) == [given |-> TRUE, list |-> l]
NoChoice == [given |-> FALSE, list |-> {}]
Choice(S) == [given |-> TRUE, list |-> S]

\* The callbacks, and the way a run of one ended: not run in this cycle
\* ("none"), triggered and not yet run ("pending"), returned its output
\* ("returned"), returned the global-error notice ("unavailable"), or raised
\* out of the callback ("uncaught").  fetch_failed: its update_metrics call
\* raised.
Callbacks == {"update_date", "update_dropdown", "update_figure"}
Ended(how, raised, fetch_failed) ==
    [how |-> how, raised |-> raised, fetch_failed |-> fetch_failed]
NotRun == Ended("none", "", FALSE)
Triggered == Ended("pending", "", FALSE)

\* ticker-text's children: nothing before the first run, the "Last update"
\* paragraph, or the global-error notice.
NoTicker == [kind |-> "none", now |-> 0]
LastUpdate(now) == [kind |-> "last_update", now |-> now]
GlobalError == [kind |-> "global_error", now |-> 0]

\* The layout as served, an empty cache, and no cycle under way.
CacheEmpty == [held |-> FALSE, raised |-> "", now |-> 0, memo |-> {}]
LayoutInitial == [ticker |-> NoTicker, options |-> <<>>, graph |-> [branch |-> "none"]]
CycleIdle == [clock |-> 0, queue |-> {}, ended |-> [cb \in Callbacks |-> NotRun]]
NoSession == cache = CacheEmpty /\ layout = LayoutInitial /\ cycle = CycleIdle

\* Cities in upstream rows, and one more that only the dropdown can hold.
DataCities == {"Fort Collins", "Loveland"}
FilterCities == DataCities \cup {"Timnath"}

\* Python's ordering of the strings of the model (str.__lt__), as ranks.
StrOrder == <<"30s", "70s", "Female", "Fort Collins", "Loveland", "Male", "NA", "Timnath">>
StrRank(s) == CHOOSE i \in 1..Len(StrOrder) : StrOrder[i] = s

Range(s) == {s[i] : i \in DOMAIN s}
SeqsUpTo(S, n) == UNION {[1..k -> S] : k \in 1..n}
SetMin(S) == CHOOSE x \in S : \A y \in S : x <= y
SetMax(S) == CHOOSE x \in S : \A y \in S : x >= y

RECURSIVE SumSeq(_)
SumSeq(s) == IF s = <<>> THEN 0 ELSE s[1] + SumSeq(Tail(s))

\* The elements of a set of integers as an ascending sequence.
RECURSIVE Ascending(_)
Ascending(S) ==
    IF S = {} THEN <<>>
    ELSE LET m == SetMin(S) IN <<m>> \o Ascending(S \ {m})

\* The strings of a set in Python's order.
RECURSIVE AscendingStr(_)
AscendingStr(S) ==
    IF S = {} THEN <<>>
    ELSE LET m == CHOOSE x \in S : \A y \in S : StrRank(x) <= StrRank(y)
         IN <<m>> \o AscendingStr(S \ {m})

----------------------------------------------------------------------------
(* County-wide daily views *)

\* Series.value_counts(): each value that occurs, with its number of rows.
value_counts(col) ==
    [v \in Range(col) |-> Cardinality({i \in DOMAIN col : col[i] = v})]

\* A resample that keeps only the days that occur (no bin for a gap).
resample_D_sum_gaps(s) ==
    LET days == Ascending(DOMAIN s)
    IN [i \in DOMAIN days |-> [reported_date |-> days[i], counts |-> s[days[i]]]]

\* Series.resample("D").sum().fillna(0): one bin per day from the first to
\* the last index value, an empty bin summing to 0.
resample_D_sum(s) ==
    LET lo == SetMin(DOMAIN s)
        hi == SetMax(DOMAIN s)
    IN [i \in 1..(hi - lo + 1) |->
           [reported_date |-> lo + i - 1,
            counts |-> IF (lo + i - 1) \in DOMAIN s THEN s[lo + i - 1] ELSE 0]]

by_day_scatter(df) ==
    LET by_day == value_counts([i \in DOMAIN df |-> df[i].reported_date])
    IN resample_D_sum(by_day)

\* df.groupby(["reported_date"]).size().reset_index(name="counts"): one row
\* per date that occurs, ascending.
groupby_date_size(df) ==
    LET dates == Ascending({df[i].reported_date : i \in DOMAIN df})
    IN [k \in DOMAIN dates |->
           [reported_date |-> dates[k],
            counts |-> Cardinality({i \in DOMAIN df : df[i].reported_date = dates[k]})]]

\* set_index(["reported_date"]).asfreq("D", fill_value=0).reset_index():
\* reindex on date_range(first, last), a day without a row getting fill.
asfreq_D(rows, fill) ==
    LET dates == {rows[k].reported_date : k \in DOMAIN rows}
        lo == SetMin(dates)
        hi == SetMax(dates)
    IN [i \in 1..(hi - lo + 1) |->
           IF (lo + i - 1) \in dates
           THEN CHOOSE r \in Range(rows) : r.reported_date = lo + i - 1
           ELSE [reported_date |-> lo + i - 1, counts |-> fill]]

\* Series.cumsum(): the running sum in frame order.
RECURSIVE cumsum(_, _)
cumsum(col, acc) ==
    IF col = <<>> THEN <<>>
    ELSE <<acc + col[1]>> \o cumsum(Tail(col), acc + col[1])

cumulative_by_day_scatter(df) ==
    LET by_day == asfreq_D(groupby_date_size(df), 0)
        sums == cumsum([i \in DOMAIN by_day |-> by_day[i].counts], 0)
    IN [i \in DOMAIN by_day |->
           [reported_date |-> by_day[i].reported_date,
            counts |-> by_day[i].counts,
            cumulative_sum |-> sums[i]]]

----------------------------------------------------------------------------
(* Per-city daily views *)

\* What a view function hands back: its rows, or that it raised.
Raised == [raised |-> TRUE, rows |-> <<>>]
Frame(rows) == [raised |-> FALSE, rows |-> rows]

\* A grouping that counts, for each (city, date), every row of the date.
groupby_city_date_size_by_date(df) ==
    LET known == {i \in DOMAIN df : df[i].city # NaN}
        keys == {<<df[i].city, df[i].reported_date>> : i \in known}
    IN [k \in keys |->
           Cardinality({i \in DOMAIN df : df[i].reported_date = k[2]})]

\* df.groupby(["city", "reported_date"]).size(): the number of rows of each
\* (city, date) that occurs; groupby drops the rows whose key is NaN.
groupby_city_date_size(df) ==
    LET known == {i \in DOMAIN df : df[i].city # NaN}
        keys == {<<df[i].city, df[i].reported_date>> : i \in known}
    IN [k \in keys |->
           Cardinality({i \in known : df[i].city = k[1] /\ df[i].reported_date = k[2]})]

\* set_index(["reported_date", "city"]).unstack(fill_value=0): one line per
\* date that occurs, one column per city that occurs.
unstack_city(g, fill) ==
    LET dates == {k[2] : k \in DOMAIN g}
        cs == {k[1] : k \in DOMAIN g}
    IN [d \in dates |->
           [c \in cs |-> IF <<c, d>> \in DOMAIN g THEN g[<<c, d>>] ELSE fill]]

\* asfreq("D", fill_value=0) of the unstacked frame.
asfreq_D_wide(w, fill) ==
    LET lo == SetMin(DOMAIN w)
        hi == SetMax(DOMAIN w)
        cs == DOMAIN w[lo]
    IN [d \in lo..hi |-> IF d \in DOMAIN w THEN w[d] ELSE [c \in cs |-> fill]]

\* stack().reset_index(): one row per (date, city), by date then city.
stack_city(w) ==
    LET dates == Ascending(DOMAIN w)
        cs == AscendingStr(DOMAIN w[dates[1]])
    IN [p \in 1..(Len(dates) * Len(cs)) |->
           LET d == dates[((p - 1) \div Len(cs)) + 1]
               c == cs[((p - 1) % Len(cs)) + 1]
           IN [city |-> c, reported_date |-> d, counts |-> w[d][c]]]

CityDateLE(a, b) ==
    \/ StrRank(a.city) < StrRank(b.city)
    \/ a.city = b.city /\ a.reported_date <= b.reported_date

RECURSIVE InsertCityDate(_, _)
InsertCityDate(r, s) ==
    IF s = <<>> THEN <<r>>
    ELSE IF CityDateLE(r, s[1]) THEN <<r>> \o s
    ELSE <<s[1]>> \o InsertCityDate(r, Tail(s))

\* sort_values(["city", "reported_date"])
RECURSIVE sort_values_city_date(_)
sort_values_city_date(s) ==
    IF s = <<>> THEN <<>>
    ELSE InsertCityDate(s[1], sort_values_city_date(Tail(s)))

\* The reshaping both per-city views share.  A frame with no row reaches
\* unstack/asfreq/stack with an empty index: the pandas installed either
\* raises there or hands the empty frame on (tolerant).
city_day_frame(df, tolerant) ==
    LET g == groupby_city_date_size(df)
    IN IF DOMAIN g = {}
       THEN IF tolerant THEN Frame(<<>>) ELSE Raised
       ELSE Frame(sort_values_city_date(
                      stack_city(asfreq_D_wide(unstack_city(g, 0), 0))))

by_day_by_city_scatter(df, tolerant) == city_day_frame(df, tolerant)

\* A running sum over the whole frame, not restarting at a city's first day.
groupby_city_cumsum_frame(rows) ==
    [i \in DOMAIN rows |-> SumSeq([j \in 1..i |-> rows[j].counts])]

\* groupby("city")["counts"].cumsum(): the running sum within each city, in
\* frame order.
groupby_city_cumsum(rows) ==
    [i \in DOMAIN rows |->
        LET grp == SelectSeq(SubSeq(rows, 1, i), LAMBDA r : r.city = rows[i].city)
        IN SumSeq([j \in DOMAIN grp |-> grp[j].counts])]

cumulative_by_city(df, tolerant) ==
    LET frame == city_day_frame(df, tolerant)
        by_city_by_day == frame.rows
    IN IF frame.raised THEN Raised
       ELSE LET sums == groupby_city_cumsum(by_city_by_day)
            IN Frame([i \in DOMAIN by_city_by_day |->
                         [city |-> by_city_by_day[i].city,
                          reported_date |-> by_city_by_day[i].reported_date,
                          counts |-> by_city_by_day[i].counts,
                          cumulative_sum |-> sums[i]]])

----------------------------------------------------------------------------
(* Category histograms *)

\* Series.unique(): the values in order of first appearance.
RECURSIVE unique(_)
unique(col) ==
    IF col = <<>> THEN <<>>
    ELSE <<col[1]>> \o unique(SelectSeq(Tail(col), LAMBDA v : v # col[1]))

\* int(a.replace("s", "")), -99 when that raises, on the bucket labels of
\* the model.
age_sort_key(a) ==
    CASE a = "30s" -> 30
      [] a = "70s" -> 70
      [] OTHER -> -99

RECURSIVE InsertByAgeKey(_, _)
InsertByAgeKey(a, s) ==
    IF s = <<>> THEN <<a>>
    ELSE IF age_sort_key(a) <= age_sort_key(s[1]) THEN <<a>> \o s
    ELSE <<s[1]>> \o InsertByAgeKey(a, Tail(s))

\* sorted(labels, key=age_sort_key)
RECURSIVE sorted_by_age_key(_)
sorted_by_age_key(s) ==
    IF s = <<>> THEN <<>>
    ELSE InsertByAgeKey(s[1], sorted_by_age_key(Tail(s)))

age_labels(df) == sorted_by_age_key(unique([i \in DOMAIN df |-> df[i].age]))

\* The reference categories with no filter on what bar carries.
missing_cats_unfiltered(categories, bar) ==
    [i \in DOMAIN categories |-> [value |-> categories[i], counts |-> 0]]

\* cats[~cats[column].isin(bar[column])] with cats["counts"] = 0: the
\* reference categories no row of bar carries, in reference order.
missing_cats(categories, bar) ==
    LET present == {bar[i].value : i \in DOMAIN bar}
        absent == SelectSeq(categories, LAMBDA c : c \notin present)
    IN [i \in DOMAIN absent |-> [value |-> absent[i], counts |-> 0]]

\* df.groupby([column])[column].count().reset_index(name="counts"): one row
\* per value that occurs, ascending (NaN is no group), then the reference
\* categories that are missing put in front.
histogram(df, column, categories) ==
    LET vals == AscendingStr({df[i][column] : i \in DOMAIN df} \ {NaN})
        x == [k \in DOMAIN vals |->
                 [value |-> vals[k],
                  counts |-> Cardinality({i \in DOMAIN df : df[i][column] = vals[k]})]]
    IN IF categories.given THEN missing_cats(categories.list, x) \o x ELSE x

\* df.groupby(["city", column])[column].count().unstack(fill_value=0)
\*   .stack().sort_index(level=0).reset_index(name="counts"): for each city
\* that occurs, one row per value that occurs under any city.
groupby_city_column(df, column) ==
    LET known == {i \in DOMAIN df : df[i].city # NaN /\ df[i][column] # NaN}
        cs == {df[i].city : i \in known}
        vals == AscendingStr({df[i][column] : i \in known})
    IN [c \in cs |->
           [k \in DOMAIN vals |->
               [value |-> vals[k],
                counts |-> Cardinality({i \in known : df[i].city = c
                                                      /\ df[i][column] = vals[k]})]]]

\* One bar per selected city: x[x.city == city], then the missing reference
\* categories put in front.
histogram_by_city(df, column, selected, categories, tolerant) ==
    LET x == groupby_city_column(df, column)
    IN IF DOMAIN x = {} /\ ~tolerant THEN Raised
       ELSE Frame([city \in selected |->
                      LET bar == IF city \in DOMAIN x THEN x[city] ELSE <<>>
                      IN IF categories.given
                         THEN missing_cats(categories.list, bar) \o bar
                         ELSE bar])

\* The x column top() hands to the chart, which counts it.
top(df) == [i \in DOMAIN df |-> df[i].city]

----------------------------------------------------------------------------
(* update_figure *)

SexLabels == <<"Female", "Male">>

\* cases_df[cases_df["city"].isin(cities)]
isin_city(df, selected) == SelectSeq(df, LAMBDA r : r.city \in selected)

\* The county-wide branch: cities is None or empty.
county_figures(cases, deaths) ==
    [branch |-> "county",
     by_day_cumulative |-> cumulative_by_day_scatter(cases),
     by_day |-> by_day_scatter(cases),
     top_n |-> top(cases),
     deaths |-> top(deaths),
     age |-> histogram(cases, "age", List(age_labels(cases))),
     deaths_age |-> histogram(deaths, "age", List(age_labels(cases))),
     sex |-> histogram(cases, "sex", NoList),
     deaths_sex |-> histogram(deaths, "sex", List(SexLabels))]

\* The per-city branch; a view that raises ends the callback.
city_figures(cases, deaths, selected, tolerant) ==
    LET dff == isin_city(cases, selected)
        cum == cumulative_by_city(dff, tolerant)
        day == by_day_by_city_scatter(dff, tolerant)
        labels == List(age_labels(cases))
        age == histogram_by_city(cases, "age", selected, labels, tolerant)
        dage == histogram_by_city(deaths, "age", selected, labels, tolerant)
        sex == histogram_by_city(cases, "sex", selected, NoList, tolerant)
        dsex == histogram_by_city(deaths, "sex", selected, List(SexLabels), tolerant)
    IN IF \/ cum.raised \/ day.raised \/ age.raised
          \/ dage.raised \/ sex.raised \/ dsex.raised
       THEN [branch |-> "raised"]
       ELSE [branch |-> "city",
             cumulative_by_city |-> cum.rows,
             by_day_by_city |-> day.rows,
             age |-> age.rows,
             deaths_age |-> dage.rows,
             sex |-> sex.rows,
             deaths_sex |-> dsex.rows]

update_figure(cases, deaths, selected, tolerant) ==
    IF ~selected.given \/ Cardinality(selected.list) = 0
    THEN county_figures(cases, deaths)
    ELSE city_figures(cases, deaths, selected.list, tolerant)

\* Whether this run reshapes (unstack, asfreq, stack) a frame with no row.
reshapes_empty(cases, deaths, selected) ==
    /\ selected.given /\ selected.list # {}
    /\ \/ DOMAIN groupby_city_date_size(isin_city(cases, selected.list)) = {}
       \/ DOMAIN groupby_city_column(cases, "age") = {}
       \/ DOMAIN groupby_city_column(deaths, "age") = {}
       \/ DOMAIN groupby_city_column(cases, "sex") = {}
       \/ DOMAIN groupby_city_column(deaths, "sex") = {}

\* The callback, run by the single-threaded server when no other run is
\* under way: the dropdown's value is None (nothing chosen yet) or a list of
\* distinct cities, held here as their set.  Whether the installed pandas
\* raises on reshaping an empty frame is fixed by no source file.
UpdateFigure ==
    \E selected \in {NoChoice} \cup {Choice(S) : S \in SUBSET FilterCities},
       raises \in BOOLEAN :
        /\ figures.branch = "none"
        /\ raises => reshapes_empty(cases_df, deaths_df, selected)
        /\ cities' = selected
        /\ figures' = update_figure(cases_df, deaths_df, selected, ~raises)
        /\ UNCHANGED <<cases_df, deaths_df, op, arg, ret>>
        /\ UNCHANGED session

\* The run's return value (or its exception) leaves the server, which is
\* then ready for the next callback; the frames stay as they are.
Respond ==
    /\ figures.branch # "none"
    /\ figures' = [branch |-> "none"]
    /\ cities' = NoChoice
    /\ UNCHANGED <<cases_df, deaths_df, op, arg, ret>>
    /\ UNCHANGED session

----------------------------------------------------------------------------
(* Specification of the daily views: the cases of a reporting cycle are    *)
(* any frame of 1..MaxRows rows over MaxDay days.                          *)

CaseRows ==
    [city : DataCities \cup {NaN}, reported_date : 1..MaxDay,
     age : {"30s"}, sex : {"Female"}]

SampleDeaths == <<[city |-> "Fort Collins", age |-> "70s", sex |-> "Female"]>>

Init ==
    /\ cases_df \in SeqsUpTo(CaseRows, MaxRows)
    /\ deaths_df = SampleDeaths
    /\ cities = NoChoice
    /\ figures = [branch |-> "none"]
    /\ op = "none" /\ arg = None /\ ret = None
    /\ NoSession

Next == UpdateFigure \/ Respond

Spec == Init /\ [][Next]_vars

----------------------------------------------------------------------------
(* Specification of the histograms: the cases vary in age (the reference   *)
(* list of the age charts), the deaths in city and sex.                    *)

HistCaseRows ==
    [city : {"Fort Collins"}, reported_date : {1},
     age : {"30s", "70s", "NA"}, sex : {"Female"}]

HistDeathRows ==
    [city : DataCities \cup {NaN}, age : {"70s"}, sex : {"Female", "Male"}]

InitHist ==
    /\ cases_df \in SeqsUpTo(HistCaseRows, MaxHistCases)
    /\ deaths_df \in SeqsUpTo(HistDeathRows, MaxDeaths)
    /\ cities = NoChoice
    /\ figures = [branch |-> "none"]
    /\ op = "none" /\ arg = None /\ ret = None
    /\ NoSession

SpecHist == InitHist /\ [][Next]_vars

----------------------------------------------------------------------------
(* Claims about the daily views *)

SourceDates == {cases_df[i].reported_date : i \in DOMAIN cases_df}
RowsOn(d) == {i \in DOMAIN cases_df : cases_df[i].reported_date = d}
KnownCity(i) == cases_df[i].city # NaN
PresentCities == {cases_df[i].city : i \in {j \in DOMAIN cases_df : KnownCity(j)}}

\* A series has one entry per day from the first to the last source date, in
\* order, each with the number of source rows of its day.
GapFilled(series) ==
    LET lo == SetMin(SourceDates)
        hi == SetMax(SourceDates)
    IN /\ Len(series) = hi - lo + 1
       /\ \A i \in DOMAIN series :
            /\ series[i].reported_date = lo + i - 1
            /\ series[i].counts = Cardinality(RowsOn(lo + i - 1))
       /\ \A i \in DOMAIN series :
            i > 1 => series[i].reported_date = series[i - 1].reported_date + 1
       /\ {series[i].reported_date : i \in {j \in DOMAIN series : series[j].counts > 0}}
             = SourceDates

\* C1: for a non-empty cases frame, the county-wide daily series of
\* by_day_scatter and of cumulative_by_day_scatter has exactly one entry for
\* each day from the first to the last reported date, ascending without gaps;
\* a day without rows counts 0, a day with rows counts its rows, and the days
\* with a positive count are exactly the source dates.
C1_DailyGapFilled ==
    figures.branch = "county" =>
        /\ GapFilled(figures.by_day)
        /\ GapFilled(figures.by_day_cumulative)

\* A county-wide run over a frame with a gap day and a day of several rows.
C1_Witness ==
    /\ figures.branch = "county"
    /\ \E i \in DOMAIN figures.by_day : figures.by_day[i].counts = 0
    /\ \E i \in DOMAIN figures.by_day : figures.by_day[i].counts >= 2
    /\ \E i \in DOMAIN figures.by_day_cumulative :
           figures.by_day_cumulative[i].counts = 0

RunningSum(series) ==
    \A i \in DOMAIN series :
        series[i].cumulative_sum =
            IF i = 1 THEN series[i].counts
            ELSE series[i - 1].cumulative_sum + series[i].counts

RunningSumPerCity(series) ==
    \A i \in DOMAIN series :
        series[i].cumulative_sum =
            IF i = 1 \/ series[i].city # series[i - 1].city
            THEN series[i].counts
            ELSE series[i - 1].cumulative_sum + series[i].counts

\* C2: the cumulative series is the running sum of the gap-filled daily
\* counts in ascending date order, hence non-decreasing and ending at the
\* number of rows; in cumulative_by_city the same holds within each city, the
\* sum restarting at a city's first day and ending at the city's rows.
C2_CumulativeIsRunningSum ==
    /\ figures.branch = "county" =>
         LET cum == figures.by_day_cumulative
         IN /\ RunningSum(cum)
            /\ \A i \in DOMAIN cum : i > 1 =>
                  /\ cum[i].cumulative_sum >= cum[i - 1].cumulative_sum
                  /\ cum[i].reported_date > cum[i - 1].reported_date
            /\ cum[Len(cum)].cumulative_sum = Len(cases_df)
    /\ figures.branch = "city" =>
         LET cum == figures.cumulative_by_city
         IN /\ RunningSumPerCity(cum)
            /\ \A i \in DOMAIN cum : (i > 1 /\ cum[i].city = cum[i - 1].city) =>
                  /\ cum[i].cumulative_sum >= cum[i - 1].cumulative_sum
                  /\ cum[i].reported_date = cum[i - 1].reported_date + 1
            /\ \A i \in DOMAIN cum :
                  (i = Len(cum) \/ cum[i].city # cum[(i + 1)].city) =>
                      cum[i].cumulative_sum =
                          Cardinality({j \in DOMAIN cases_df :
                                          cases_df[j].city = cum[i].city})

\* A per-city run where a second city's sum restarts below the first's.
C2_Witness ==
    /\ figures.branch = "city"
    /\ \E i \in DOMAIN figures.cumulative_by_city :
          /\ i > 1
          /\ figures.cumulative_by_city[i].city # figures.cumulative_by_city[i - 1].city
          /\ figures.cumulative_by_city[i - 1].cumulative_sum >= 2
          /\ figures.cumulative_by_city[i].cumulative_sum
                < figures.cumulative_by_city[i - 1].cumulative_sum

\* The per-city daily counts of day d, summed over the cities.
CitySum(d) ==
    LET on == SelectSeq(figures.by_day_by_city, LAMBDA r : r.reported_date = d)
    IN SumSeq([i \in DOMAIN on |-> on[i].counts])

\* The county-wide daily count of day d.
CountyCount(d) ==
    LET on == SelectSeq(by_day_scatter(cases_df), LAMBDA r : r.reported_date = d)
    IN SumSeq([i \in DOMAIN on |-> on[i].counts])

AllCitiesSelected == figures.branch = "city" /\ PresentCities \subseteq cities.list

\* C3 as stated: with every city selected, the per-city daily counts of each
\* day sum to the county-wide count of the day, rows without a city included.
C3_Original ==
    AllCitiesSelected => \A d \in 1..MaxDay : CitySum(d) = CountyCount(d)

\* C3, amended: the per-city daily counts of each day sum to the number of
\* the day's rows that carry one of the selected cities, each counted once; a
\* row without a city is in no per-city series, so with every city selected
\* the sum is the county-wide count less the day's rows without a city.
C3_CitySumsCountKnownRows ==
    /\ figures.branch = "city" =>
         \A d \in 1..MaxDay :
            CitySum(d) = Cardinality({i \in RowsOn(d) : cases_df[i].city \in cities.list})
    /\ AllCitiesSelected =>
         \A d \in 1..MaxDay :
            CitySum(d) = CountyCount(d) - Cardinality({i \in RowsOn(d) : ~KnownCity(i)})

\* Every city selected, two cities present, and a row without a city on a
\* day that also has a row with one.
C3_Witness ==
    /\ AllCitiesSelected
    /\ Cardinality(PresentCities) = 2
    /\ \E d \in 1..MaxDay :
          /\ CitySum(d) >= 1
          /\ CitySum(d) < CountyCount(d)

----------------------------------------------------------------------------
(* Claims about the histograms and the city filter *)

RowsWith(df, column, c) == {i \in DOMAIN df : df[i][column] = c}
RowsOfCityWith(df, city, column, c) ==
    {i \in DOMAIN df : df[i].city = city /\ df[i][column] = c}

\* Every reference category is on exactly one row of the histogram, with
\* the given count.
HasEachOnce(hist, reference, count(_)) ==
    \A c \in reference :
        /\ Cardinality({k \in DOMAIN hist : hist[k].value = c}) = 1
        /\ \A k \in DOMAIN hist : hist[k].value = c => hist[k].counts = count(c)

CaseAges == {cases_df[i].age : i \in DOMAIN cases_df}

\* C8: with a reference category list, histogram, and histogram_by_city for
\* each selected city on its own, holds every reference category exactly
\* once, with its row count when the data has it and 0 when not.
C8_ReferenceCategoriesFilled ==
    /\ figures.branch = "county" =>
         /\ HasEachOnce(figures.age, CaseAges,
                        LAMBDA c : Cardinality(RowsWith(cases_df, "age", c)))
         /\ HasEachOnce(figures.deaths_age, CaseAges,
                        LAMBDA c : Cardinality(RowsWith(deaths_df, "age", c)))
         /\ HasEachOnce(figures.deaths_sex, Range(SexLabels),
                        LAMBDA c : Cardinality(RowsWith(deaths_df, "sex", c)))
    /\ figures.branch = "city" =>
         \A city \in cities.list :
            /\ HasEachOnce(figures.age[city], CaseAges,
                   LAMBDA c : Cardinality(RowsOfCityWith(cases_df, city, "age", c)))
            /\ HasEachOnce(figures.deaths_age[city], CaseAges,
                   LAMBDA c : Cardinality(RowsOfCityWith(deaths_df, city, "age", c)))
            /\ HasEachOnce(figures.deaths_sex[city], Range(SexLabels),
                   LAMBDA c : Cardinality(RowsOfCityWith(deaths_df, city, "sex", c)))

\* Two cities selected and the deaths all "Female", two rows in one city:
\* its bar is Female = 2 and Male = 0.
C8_Witness ==
    /\ figures.branch = "city"
    /\ cities.list = DataCities
    /\ \A i \in DOMAIN deaths_df : deaths_df[i].sex = "Female"
    /\ \E city \in cities.list :
          figures.deaths_sex[city] =
              <<[value |-> "Male", counts |-> 0], [value |-> "Female", counts |-> 2]>>

DeathCities == {deaths_df[i].city : i \in DOMAIN deaths_df} \ {NaN}

\* C9 as stated: update_figure run with cities none of which is in the
\* data ends without an error and every per-city view has zero rows.
C9_Original ==
    (/\ figures.branch # "none"
     /\ cities.given /\ cities.list # {}
     /\ cities.list \cap (PresentCities \cup DeathCities) = {})
    => /\ figures.branch = "city"
       /\ figures.by_day_by_city = <<>>
       /\ figures.cumulative_by_city = <<>>
       /\ \A city \in cities.list :
             /\ figures.age[city] = <<>>
             /\ figures.deaths_age[city] = <<>>
             /\ figures.sex[city] = <<>>
             /\ figures.deaths_sex[city] = <<>>

----------------------------------------------------------------------------
(* Strings of the normalizer: a str is the sequence of its characters.     *)

Uppers == <<"A", "B", "C", "D", "E", "F", "G", "H", "I", "J", "K", "L", "M",
            "N", "O", "P", "Q", "R", "S", "T", "U", "V", "W", "X", "Y", "Z">>
Lowers == <<"a", "b", "c", "d", "e", "f", "g", "h", "i", "j", "k", "l", "m",
            "n", "o", "p", "q", "r", "s", "t", "u", "v", "w", "x", "y", "z">>
Digits == <<"0", "1", "2", "3", "4", "5", "6", "7", "8", "9">>

IsUpper(c) == c \in Range(Uppers)
IsLower(c) == c \in Range(Lowers)
IsDigit(c) == c \in Range(Digits)
IndexIn(c, s) == CHOOSE i \in DOMAIN s : s[i] = c

\* str.lower() and str.upper() of one character.
lower_char(c) == IF IsUpper(c) THEN Lowers[IndexIn(c, Uppers)] ELSE c
upper_char(c) == IF IsLower(c) THEN Uppers[IndexIn(c, Lowers)] ELSE c
lower(str) == [i \in DOMAIN str |-> lower_char(str[i])]

\* A call's outcome: the value returned, or the exception raised.
Ok(v) == [raised |-> "", value |-> v]
Err(e) == [raised |-> e, value |-> <<>>]
Pending == [raised |-> "pending", value |-> <<>>]

\* str.split(sep): the pieces between the separators, empty ones included.
RECURSIVE split(_, _)
split(str, sep) ==
    IF \A i \in DOMAIN str : str[i] # sep THEN <<str>>
    ELSE LET k == CHOOSE i \in DOMAIN str :
                      str[i] = sep /\ \A j \in 1..(i - 1) : str[j] # sep
         IN <<SubSeq(str, 1, k - 1)>> \o split(SubSeq(str, k + 1, Len(str)), sep)

\* sep.join(parts)
RECURSIVE join(_, _)
join(sep, parts) ==
    IF parts = <<>> THEN <<>>
    ELSE IF Len(parts) = 1 THEN parts[1]
    ELSE parts[1] \o <<sep>> \o join(sep, Tail(parts))

\* int(str) for a str of an optional "-" and decimal digits; anything else
\* in the model's alphabets raises ValueError.
RECURSIVE digits_value(_, _)
digits_value(str, acc) ==
    IF str = <<>> THEN acc
    ELSE digits_value(Tail(str), 10 * acc + (IndexIn(str[1], Digits) - 1))

int_of_str(str) ==
    LET neg == str # <<>> /\ str[1] = "-"
        body == IF neg THEN Tail(str) ELSE str
    IN IF body # <<>> /\ \A i \in DOMAIN body : IsDigit(body[i])
       THEN Ok(IF neg THEN 0 - digits_value(body, 0) ELSE digits_value(body, 0))
       ELSE Err("ValueError")

\* str(n) of an integer.
RECURSIVE nat_str(_)
nat_str(n) ==
    IF n < 10 THEN <<Digits[n + 1]>>
    ELSE nat_str(n \div 10) \o <<Digits[(n % 10) + 1]>>

str_of_int(n) == IF n < 0 THEN <<"-">> \o nat_str(0 - n) ELSE nat_str(n)

----------------------------------------------------------------------------
(* fix_bad_dates, create_age_buckets, format_column *)

ReportingYear == <<"2", "0", "2", "0">>

\* A repair that keeps the empty pieces of a doubled separator.
fix_bad_dates_keep_empty(d) ==
    LET date_parts == split(d, "/")
    IN IF Len(date_parts) < 2 THEN Err("IndexError")
       ELSE IF Len(date_parts) = 2
       THEN Ok(join("/", <<date_parts[1], date_parts[2], ReportingYear>>))
       ELSE Ok(join("/", <<date_parts[1], date_parts[2], date_parts[3]>>))

\* date_parts[1] (and [0]) of fewer than two parts raise IndexError.
fix_bad_dates(d) ==
    LET date_parts == SelectSeq(split(d, "/"), LAMBDA part : part # <<>>)
    IN IF Len(date_parts) = 2
       THEN Ok(join("/", <<date_parts[1], date_parts[2], ReportingYear>>))
       ELSE IF Len(date_parts) < 2 THEN Err("IndexError")
       ELSE Ok(join("/", <<date_parts[1], date_parts[2], date_parts[3]>>))

\* A Python value handed to create_age_buckets: an int, a whole float, the
\* float NaN (a numeric column with a missing cell) or infinity, or a str.
PyInt(n) == [type |-> "int", v |-> n]
PyFloat(n) == [type |-> "float", v |-> n]
PyNaN == [type |-> "nan", v |-> <<>>]
PyInf == [type |-> "inf", v |-> <<>>]
PyStr(str) == [type |-> "str", v |-> str]

\* int(x)
py_int(x) ==
    CASE x.type = "int" -> Ok(x.v)
      [] x.type = "float" -> Ok(x.v)
      [] x.type = "nan" -> Err("ValueError")
      [] x.type = "inf" -> Err("OverflowError")
      [] OTHER -> int_of_str(x.v)

NA == <<"N", "A">>

\* A bucket label from the decade's number instead of its floor.
create_age_buckets_decade(x) ==
    LET n == py_int(x)
    IN IF n.raised = "ValueError" THEN Ok(NA)
       ELSE IF n.raised # "" THEN n
       ELSE Ok(str_of_int(n.value \div 10) \o <<"s">>)

\* Only ValueError is caught.
create_age_buckets(x) ==
    LET n == py_int(x)
    IN IF n.raised = "ValueError" THEN Ok(NA)
       ELSE IF n.raised # "" THEN n
       ELSE Ok(str_of_int(n.value - (n.value % 10)) \o <<"s">>)

\* The length of the run of lower-case letters a str starts with.
RECURSIVE lower_run(_)
lower_run(str) ==
    IF str = <<>> \/ ~IsLower(str[1]) THEN 0 ELSE 1 + lower_run(Tail(str))

\* re.findall("[A-Z][a-z]*", col)
RECURSIVE findall_capitalized(_)
findall_capitalized(col) ==
    IF col = <<>> THEN <<>>
    ELSE IF IsUpper(col[1])
    THEN LET n == lower_run(Tail(col))
         IN <<SubSeq(col, 1, 1 + n)>>
                \o findall_capitalized(SubSeq(col, 2 + n, Len(col)))
    ELSE findall_capitalized(Tail(col))

format_column(col) ==
    LET f_col == findall_capitalized(col)
    IN join("_", [i \in DOMAIN f_col |-> lower(f_col[i])])

----------------------------------------------------------------------------
(* create_cases_df, create_deaths_df *)

IsNaN(x) == x.type = "nan"
IsLetter(c) == IsUpper(c) \/ IsLower(c)

\* str.title(): a letter after a letter is lowered, any other raised.
title(str) ==
    [i \in DOMAIN str |->
        IF i > 1 /\ IsLetter(str[i - 1]) THEN lower_char(str[i])
        ELSE upper_char(str[i])]

\* str.strip()
RECURSIVE lstrip(_)
lstrip(str) == IF str # <<>> /\ str[1] = " " THEN lstrip(Tail(str)) ELSE str
RECURSIVE rstrip(_)
rstrip(str) ==
    IF str # <<>> /\ str[Len(str)] = " "
    THEN rstrip(SubSeq(str, 1, Len(str) - 1)) ELSE str
strip(str) == rstrip(lstrip(str))

\* The .str accessor leaves a missing cell missing.
str_title(x) == IF IsNaN(x) THEN x ELSE PyStr(title(x.v))
str_strip(x) == IF IsNaN(x) THEN x ELSE PyStr(strip(x.v))

Mal == <<"M", "a", "l">>
Male == <<"M", "a", "l", "e">>
Female == <<"F", "e", "m", "a", "l", "e">>
MaleToFemale == <<"M", "a", "l", "e", " ", "T", "o", " ", "F", "e", "m", "a", "l", "e">>

\* Series.replace({"Mal": "Male", "Male To Female": "Female"}): a cell equal
\* to a key becomes its value.
replace_sex(x) ==
    IF IsNaN(x) THEN x
    ELSE IF x.v = Mal THEN PyStr(Male)
    ELSE IF x.v = MaleToFemale THEN PyStr(Female)
    ELSE x

\* cases_df.sex.str.title().str.strip(), then the replace.
normalize_sex(x) == replace_sex(str_strip(str_title(x)))

\* The days of a month of the proleptic Gregorian calendar.
days_in_month(y, m) ==
    IF m = 2
    THEN (IF (y % 4 = 0 /\ y % 100 # 0) \/ y % 400 = 0 THEN 29 ELSE 28)
    ELSE IF m \in {4, 6, 9, 11} THEN 30 ELSE 31

\* pd.to_datetime of one month/day/year str: the calendar day, or ValueError
\* for a str that is no date.
to_datetime(str) ==
    LET parts == split(str, "/")
        nums == [i \in DOMAIN parts |-> int_of_str(parts[i])]
    IN IF Len(parts) # 3 \/ \E i \in DOMAIN nums : nums[i].raised # ""
       THEN Err("ValueError")
       ELSE LET m == nums[1].value
                d == nums[2].value
                y == nums[3].value
            IN IF m \in 1..12 /\ y >= 1 /\ d >= 1 /\ d <= days_in_month(y, m)
               THEN Ok([year |-> y, month |-> m, day |-> d])
               ELSE Err("ValueError")

\* pd.read_csv's type of a column: integers when every cell is one, floats
\* when some are missing and the rest integers, else the strs as they are.
read_csv_column(cells) ==
    LET numeric(x) == ~IsNaN(x) /\ int_of_str(x.v).raised = ""
    IN IF \A i \in DOMAIN cells : IsNaN(cells[i]) \/ numeric(cells[i])
       THEN [i \in DOMAIN cells |->
                IF IsNaN(cells[i]) THEN PyNaN
                ELSE IF \E j \in DOMAIN cells : IsNaN(cells[j])
                THEN PyFloat(int_of_str(cells[i].v).value)
                ELSE PyInt(int_of_str(cells[i].v).value)]
       ELSE cells

\* dropna(axis=0, thresh=2): the rows with at least two cells present.
dropna_thresh2(rows) ==
    {i \in DOMAIN rows : Cardinality({k \in DOMAIN rows[i] : ~IsNaN(rows[i][k])}) >= 2}

\* The position of a column, 0 when the frame has none of that name.
column_index(columns, name) ==
    IF \E k \in DOMAIN columns : columns[k] = name
    THEN CHOOSE k \in DOMAIN columns :
             columns[k] = name /\ \A j \in 1..(k - 1) : columns[j] # name
    ELSE 0

COL_CITY == <<"c", "i", "t", "y">>
COL_AGE == <<"a", "g", "e">>
COL_SEX == <<"s", "e", "x">>
COL_GENDER == <<"g", "e", "n", "d", "e", "r">>
COL_REPORTED_DATE == <<"r", "e", "p", "o", "r", "t", "e", "d", "_", "d", "a", "t", "e">>

\* The first exception among the outcomes of a column's cells, "" if none.
first_raised(outs) ==
    IF \A i \in DOMAIN outs : outs[i].raised = "" THEN ""
    ELSE outs[CHOOSE i \in DOMAIN outs :
                  outs[i].raised # "" /\ \A j \in 1..(i - 1) : outs[j].raised = ""].raised

\* A frame is its header and its rows of cells.  An attribute that names no
\* column (cases_df.age, ...) raises AttributeError; so does fix_bad_dates
\* on a missing date, a float; one date that stays unparseable makes
\* pd.to_datetime raise ValueError for the column.
create_cases_df(cases) ==
    LET columns == [k \in DOMAIN cases.columns |-> format_column(cases.columns[k])]
        city == column_index(columns, COL_CITY)
        age == column_index(columns, COL_AGE)
        sex == column_index(columns, COL_SEX)
        date == column_index(columns, COL_REPORTED_DATE)
        rows == cases.rows
        kept == Ascending(dropna_thresh2(rows))
        ages == read_csv_column([i \in DOMAIN rows |-> rows[i][IF age = 0 THEN 1 ELSE age]])
        buckets == [k \in DOMAIN kept |-> create_age_buckets(ages[kept[k]])]
    IN IF age = 0 THEN Err("AttributeError")
       ELSE IF first_raised(buckets) # "" THEN Err(first_raised(buckets))
       ELSE IF city = 0 \/ sex = 0 \/ date = 0 THEN Err("AttributeError")
       ELSE
       LET fixed == [k \in DOMAIN kept |->
                        IF IsNaN(rows[kept[k]][date]) THEN Err("AttributeError")
                        ELSE fix_bad_dates(rows[kept[k]][date].v)]
           parsed == [k \in DOMAIN kept |->
                         IF fixed[k].raised # "" THEN fixed[k]
                         ELSE to_datetime(fixed[k].value)]
       IN IF first_raised(fixed) # "" THEN Err(first_raised(fixed))
          ELSE IF first_raised(parsed) # "" THEN Err("ValueError")
          ELSE Ok([k \in DOMAIN kept |->
                      [city |-> str_title(rows[kept[k]][city]),
                       age |-> buckets[k].value,
                       sex |-> normalize_sex(rows[kept[k]][sex]),
                       reported_date |-> parsed[k].value]])

\* The deaths frame: rows dropped, city title-cased, age bucketed, and the
\* gender column renamed to sex as it is.
create_deaths_df(deaths) ==
    LET columns == deaths.columns
        city == column_index(columns, COL_CITY)
        age == column_index(columns, COL_AGE)
        gender == column_index(columns, COL_GENDER)
    IN IF city = 0 \/ age = 0 THEN Err("AttributeError")
       ELSE
       LET rows == deaths.rows
           ages == read_csv_column([i \in DOMAIN rows |-> rows[i][age]])
           kept == Ascending(dropna_thresh2(rows))
           buckets == [k \in DOMAIN kept |-> create_age_buckets(ages[kept[k]])]
       IN IF first_raised(buckets) # "" THEN Err(first_raised(buckets))
          ELSE Ok([k \in DOMAIN kept |->
                 [city |-> str_title(rows[kept[k]][city]),
                  age |-> buckets[k].value,
                  sex |-> IF gender = 0 THEN PyNaN ELSE rows[kept[k]][gender]]])

----------------------------------------------------------------------------
(* Specification of the normalizer: one call of one function on an input   *)
(* drawn from bounded sets.                                                *)

MaxDateLen == 5
MaxAge == 109
MaxAgeStrLen == 2
MaxHeaderLen == 4
MaxRawRows == 2

StrsUpTo(alphabet, n) == UNION {[1..k -> alphabet] : k \in 0..n}

D_3_14 == <<"3", "/", "1", "4">>
D_3__14_2020 == <<"3", "/", "/", "1", "4", "/", "2", "0", "2", "0">>
D_3_14_2020 == <<"3", "/", "1", "4", "/", "2", "0", "2", "0">>
D_3_1_2020 == <<"3", "/", "1", "/", "2", "0", "2", "0">>
D_not_a_date == <<"n", "o", "t", "-", "a", "-", "d", "a", "t", "e">>

DateInputs ==
    StrsUpTo({"/", "1", "3"}, MaxDateLen)
        \cup {D_3_14, D_3__14_2020, D_3_14_2020, D_3_1_2020, D_not_a_date}

AgeNumberInputs ==
    {PyInt(n) : n \in (0 - 12)..MaxAge} \cup {PyFloat(n) : n \in 0..MaxAge}

AgeCellInputs ==
    {PyNaN, PyInf} \cup {PyStr(str) : str \in StrsUpTo({"3", "4", "x", "-"}, MaxAgeStrLen)}

H_City == <<"C", "i", "t", "y">>
H_ReportedDate == <<"R", "e", "p", "o", "r", "t", "e", "d", "D", "a", "t", "e">>
H_Age == <<"A", "g", "e">>
H_Sex == <<"S", "e", "x">>

HeaderInputs ==
    StrsUpTo({"C", "D", "a", "e", "_"}, MaxHeaderLen)
        \cup {H_City, H_ReportedDate, H_Age, H_Sex,
              COL_CITY, COL_REPORTED_DATE, COL_AGE, COL_SEX}

\* The upstream header of the cases feed, and the same header in the form
\* format_column produces.
CasesHeader == <<H_City, H_ReportedDate, H_Age, H_Sex>>
CanonicalHeader == <<COL_CITY, COL_REPORTED_DATE, COL_AGE, COL_SEX>>
DeathsHeader == <<COL_CITY, COL_AGE, COL_GENDER>>

S_F == <<"F">>
S_m == <<"m">>
S_female_ == <<"f", "e", "m", "a", "l", "e", " ">>
RawSexes == {PyStr(S_F), PyStr(S_m), PyStr(Mal), PyStr(S_female_)}
RawAges == {PyStr(<<"3", "4">>), PyNaN}
RawCity == PyStr(<<"f", "o", "r", "t", " ", "c", "o", "l", "l", "i", "n", "s">>)

BlankCaseRow == <<PyNaN, PyNaN, PyNaN, PyNaN>>
RawCaseRows ==
    {<<RawCity, PyStr(d), a, x>> :
        d \in {D_3_14, D_3__14_2020, D_3_1_2020, D_not_a_date},
        a \in RawAges, x \in RawSexes} \cup {BlankCaseRow}

BlankDeathRow == <<PyNaN, PyNaN, PyNaN>>
RawDeathRows == {<<RawCity, a, x>> : a \in RawAges, x \in RawSexes} \cup {BlankDeathRow}

\* Frames of 1..MaxRawRows rows, one of them at least not blank.
RawCases ==
    {[columns |-> h, rows |-> rows] :
        h \in {CasesHeader, CanonicalHeader},
        rows \in {r \in SeqsUpTo(RawCaseRows, MaxRawRows) :
                     \E i \in DOMAIN r : r[i] # BlankCaseRow}}

RawDeaths ==
    {[columns |-> DeathsHeader, rows |-> rows] :
        rows \in {r \in SeqsUpTo(RawDeathRows, MaxRawRows) :
                     \E i \in DOMAIN r : r[i] # BlankDeathRow}}

InitNorm ==
    /\ cases_df = <<>> /\ deaths_df = <<>>
    /\ cities = NoChoice
    /\ figures = [branch |-> "none"]
    /\ ret = Pending
    /\ NoSession
    /\ \/ op = "fix_bad_dates" /\ arg \in DateInputs
       \/ op = "create_age_buckets" /\ arg \in AgeNumberInputs
       \/ op = "create_age_buckets" /\ arg \in AgeCellInputs
       \/ op = "format_column" /\ arg \in HeaderInputs
       \/ op = "create_cases_df" /\ arg \in RawCases
       \/ op = "create_deaths_df" /\ arg \in RawDeaths

Called(name) == op = name /\ ret.raised = "pending"
Done(name) == op = name /\ ret.raised # "pending"

FixBadDates ==
    /\ Called("fix_bad_dates")
    /\ ret' = fix_bad_dates(arg)
    /\ UNCHANGED <<cases_df, deaths_df, cities, figures, op, arg>>
    /\ UNCHANGED session

CreateAgeBuckets ==
    /\ Called("create_age_buckets")
    /\ ret' = create_age_buckets(arg)
    /\ UNCHANGED <<cases_df, deaths_df, cities, figures, op, arg>>
    /\ UNCHANGED session

FormatColumn ==
    /\ Called("format_column")
    /\ ret' = Ok(format_column(arg))
    /\ UNCHANGED <<cases_df, deaths_df, cities, figures, op, arg>>
    /\ UNCHANGED session

CreateCasesDf ==
    /\ Called("create_cases_df")
    /\ ret' = create_cases_df(arg)
    /\ UNCHANGED <<cases_df, deaths_df, cities, figures, op, arg>>
    /\ UNCHANGED session

CreateDeathsDf ==
    /\ Called("create_deaths_df")
    /\ ret' = create_deaths_df(arg)
    /\ UNCHANGED <<cases_df, deaths_df, cities, figures, op, arg>>
    /\ UNCHANGED session

NextNorm ==
    \/ FixBadDates
    \/ CreateAgeBuckets
    \/ FormatColumn
    \/ CreateCasesDf
    \/ CreateDeathsDf

SpecNorm == InitNorm /\ [][NextNorm]_vars

----------------------------------------------------------------------------
(* Claims about the normalizer *)

\* The non-empty segments of a date str, between its "/" separators.
Segments(d) == SelectSeq(split(d, "/"), LAMBDA part : part # <<>>)
March14 == Ok([year |-> 2020, month |-> 3, day |-> 14])

\* C4: fix_bad_dates gives a month/day input without a year segment the
\* reporting year ("3/14" is March 14, 2020), drops the empty segments of
\* doubled or stray separators ("3//14/2020" is March 14, 2020), and returns
\* a month/day/year input with single separators unchanged.
C4_DateRepair ==
    Done("fix_bad_dates") =>
        /\ Len(Segments(arg)) = 2 =>
              /\ ret.raised = ""
              /\ split(ret.value, "/") = Segments(arg) \o <<ReportingYear>>
        /\ Len(Segments(arg)) = 3 =>
              /\ ret.raised = ""
              /\ split(ret.value, "/") = Segments(arg)
        /\ (Len(Segments(arg)) = 3 /\ Len(split(arg, "/")) = 3) => ret.value = arg
        /\ arg = D_3_14 =>
              ret.value = D_3_14_2020 /\ to_datetime(ret.value) = March14
        /\ arg = D_3__14_2020 =>
              ret.value = D_3_14_2020 /\ to_datetime(ret.value) = March14

\* "3//14/2020" repaired to "3/14/2020".
C4_Witness ==
    /\ Done("fix_bad_dates")
    /\ arg = D_3__14_2020
    /\ ret = Ok(D_3_14_2020)

\* The rows of a raw frame dropna keeps, in order.
KeptRows(frame) ==
    SelectSeq(frame.rows,
              LAMBDA r : Cardinality({k \in DOMAIN r : ~IsNaN(r[k])}) >= 2)

\* Whether a raw date cell still parses after repair.
Repairable(cell) ==
    /\ ~IsNaN(cell)
    /\ Len(Segments(cell.v)) \in {2, 3}
    /\ to_datetime(join("/", IF Len(Segments(cell.v)) = 2
                             THEN Segments(cell.v) \o <<ReportingYear>>
                             ELSE Segments(cell.v))).raised = ""

\* C5 as stated: a row whose date cannot be parsed after repair is dropped,
\* and create_cases_df returns, without raising, every other row.
C5_Original ==
    (Done("create_cases_df") /\ arg.columns = CasesHeader) =>
        LET good == SelectSeq(KeptRows(arg), LAMBDA r : Repairable(r[2]))
        IN /\ ret.raised = ""
           /\ Len(ret.value) = Len(good)
           /\ \A k \in DOMAIN good :
                 ret.value[k].reported_date
                     = to_datetime(fix_bad_dates(good[k][2].v).value).value

\* What the claim says of a raw sex value: "F" and "f" are "Female", "M" and
\* "m" are "Male".
ClaimedSex(raw, out) ==
    /\ raw.v \in {S_F, <<"f">>} => out = PyStr(Female)
    /\ raw.v \in {<<"M">>, S_m} => out = PyStr(Male)

\* C6 as stated: the sex value is case-folded and trimmed and its synonyms
\* mapped to "Female" and "Male", and create_deaths_df gives a raw sex value
\* the value create_cases_df gives it.
C6_Original ==
    /\ (Done("create_cases_df") /\ ret.raised = "") =>
          \A k \in DOMAIN ret.value :
              ClaimedSex(KeptRows(arg)[k][4], ret.value[k].sex)
    /\ (Done("create_deaths_df") /\ ret.raised = "") =>
          \A k \in DOMAIN ret.value :
              /\ ClaimedSex(KeptRows(arg)[k][3], ret.value[k].sex)
              /\ ret.value[k].sex = normalize_sex(KeptRows(arg)[k][3])

\* A str that is an integer literal: digits, after an optional "-".
IsIntLiteral(str) ==
    LET body == IF str # <<>> /\ str[1] = "-" THEN Tail(str) ELSE str
    IN body # <<>> /\ \A i \in DOMAIN body : IsDigit(body[i])

\* The label of the decade [f, f + 9] that holds n.
IsDecadeLabel(label, n) ==
    /\ label # <<>> /\ label[Len(label)] = "s"
    /\ LET f == int_of_str(SubSeq(label, 1, Len(label) - 1))
       IN /\ f.raised = ""
          /\ f.value % 10 = 0
          /\ f.value <= n /\ n <= f.value + 9
          /\ label = str_of_int(f.value) \o <<"s">>
          /\ create_age_buckets(PyInt(f.value)) = Ok(label)

\* C7: create_age_buckets gives an integer age the label of its decade floor
\* (0..9 "0s", 34 "30s"), gives a missing or non-numeric age "NA" without
\* raising, and gives the decade floor of an age the bucket of the age.
\* (The float infinity, a number that is no integer, is neither case.)
C7_AgeBuckets ==
    Done("create_age_buckets") =>
        /\ arg.type # "inf" => ret.raised = ""
        /\ arg.type \in {"int", "float"} =>
              /\ IsDecadeLabel(ret.value, arg.v)
              /\ arg.v \in 0..9 => ret.value = <<"0", "s">>
              /\ arg.v = 34 => ret.value = <<"3", "0", "s">>
        /\ (arg.type = "str" /\ IsIntLiteral(arg.v)) =>
              IsDecadeLabel(ret.value, int_of_str(arg.v).value)
        /\ (arg.type = "nan" \/ (arg.type = "str" /\ ~IsIntLiteral(arg.v))) =>
              ret.value = NA

\* Age 34 bucketed as "30s".
C7_Witness ==
    /\ Done("create_age_buckets")
    /\ arg = PyInt(34)
    /\ ret = Ok(<<"3", "0", "s">>)

\* A header in the form format_column produces: lower-case words joined by
\* single "_".
IsCanonicalHeader(col) ==
    /\ col # <<>>
    /\ \A i \in DOMAIN col : IsLower(col[i]) \/ col[i] = "_"
    /\ col[1] # "_" /\ col[Len(col)] # "_"
    /\ \A i \in 1..(Len(col) - 1) : ~(col[i] = "_" /\ col[i + 1] = "_")

\* C10 as stated: format_column maps a header already in canonical form to
\* itself, so that normalizing its own result changes nothing.
C10_Original ==
    Done("format_column") =>
        /\ IsCanonicalHeader(arg) => ret.value = arg
        /\ format_column(ret.value) = ret.value

----------------------------------------------------------------------------
(* The reporting cycle: update_metrics behind the cache, and the callbacks *)
(* the interval's tick and the dropdown set off.                           *)

MaxCycles == 2
MaxCycleRows == 2

\* What the two requests.get of one run of update_metrics meet: the
\* resource, no connection (requests raises), or a non-success status,
\* which requests.get returns as any other response.
Reply == {"ok", "unreachable", "status"}
Responses == [cases : Reply, deaths : Reply]

\* The body of a non-success response: no CSV of the feed's columns.
ErrorBody ==
    [columns |-> << <<"E", "r", "r", "o", "r">> >>,
     rows |-> << <<PyStr(<<"4", "0", "4">>)>> >>]

\* The exception the body of update_metrics ends with, "" when it returns:
\* the cases request and its normalization come first, then the deaths'.
\* The frames of a successful run are cases_df and deaths_df.
fetch_raised(response) ==
    IF response.cases = "unreachable" THEN "ConnectionError"
    ELSE IF response.cases = "status" THEN create_cases_df(ErrorBody).raised
    ELSE IF response.deaths = "unreachable" THEN "ConnectionError"
    ELSE IF response.deaths = "status" THEN create_deaths_df(ErrorBody).raised
    ELSE ""

\* @cache.cached(): the entry when there is one; else the body runs, and
\* its return value is stored.  An exception leaves before the store.
update_metrics(c, response, clock) ==
    IF c.held THEN [raised |-> c.raised, now |-> c.now, cache |-> c]
    ELSE IF fetch_raised(response) # ""
    THEN [raised |-> fetch_raised(response), now |-> 0, cache |-> c]
    ELSE [raised |-> "", now |-> clock,
          cache |-> [c EXCEPT !.held = TRUE, !.raised = "", !.now = clock]]

\* The options of the dropdown: the distinct cities, in order of label.  A
\* missing city is a float NaN, which is truthy and has no order with a str.
update_dropdown(cases) ==
    LET labels == SelectSeq(unique(top(cases)), LAMBDA label : label # "")
        option(value) == [label |-> value, value |-> value]
    IN IF Len(labels) <= 1 THEN Ok([i \in DOMAIN labels |-> option(labels[i])])
       ELSE IF NaN \in Range(labels) THEN Err("TypeError")
       ELSE LET sorted == AscendingStr(Range(labels))
            IN Ok([i \in DOMAIN sorted |-> option(sorted[i])])

\* The values the user can give the dropdown.
DropdownValues == {NoChoice} \cup {Choice(S) : S \in SUBSET FilterCities}

\* The callbacks one output sets off (the Inputs of app.py:243, 262-263).
DependentsOfTicker == {"update_dropdown", "update_figure"}
DependentsOfValue == {"update_figure"}

StartCycle(clock, first, dependents) ==
    [clock |-> clock, queue |-> dependents,
     ended |-> [cb \in Callbacks |->
                   IF cb = "update_date" THEN first
                   ELSE IF cb \in dependents THEN Triggered ELSE NotRun]]

EndCallback(cb, how) ==
    [cycle EXCEPT !.queue = @ \ {cb}, !.ended[cb] = how]

\* The interval's tick runs update_date, whose output sets off the two
\* callbacks that read ticker-text.
UpdateDate ==
    /\ cycle.queue = {}
    /\ cycle.clock < MaxCycles
    /\ \E response \in Responses :
          LET clock == cycle.clock + 1
              m == update_metrics(cache, response, clock)
          IN /\ cache' = m.cache
             /\ layout' = [layout EXCEPT !.ticker =
                              IF m.raised = "" THEN LastUpdate(m.now)
                              ELSE GlobalError]
             /\ cycle' = StartCycle(clock,
                             IF m.raised = "" THEN Ended("returned", "", FALSE)
                             ELSE Ended("unavailable", m.raised, TRUE),
                             DependentsOfTicker)
    /\ UNCHANGED <<cases_df, deaths_df, cities, figures, op, arg, ret>>

\* The user gives the dropdown another value, which sets off update_figure.
SelectCities ==
    /\ cycle.queue = {}
    /\ cycle.clock >= 1 /\ cycle.clock < MaxCycles
    /\ \E selected \in DropdownValues \ {cities} :
          /\ cities' = selected
          /\ cycle' = StartCycle(cycle.clock + 1, NotRun, DependentsOfValue)
    /\ UNCHANGED <<cases_df, deaths_df, figures, op, arg, ret, cache, layout>>

UpdateDropdown ==
    /\ "update_dropdown" \in cycle.queue
    /\ \E response \in Responses :
          LET m == update_metrics(cache, response, cycle.clock)
              options == update_dropdown(cases_df)
          IN /\ cache' = m.cache
             /\ IF m.raised # ""
                THEN /\ cycle' = EndCallback("update_dropdown",
                                     Ended("uncaught", m.raised, TRUE))
                     /\ UNCHANGED layout
                ELSE IF options.raised # ""
                THEN /\ cycle' = EndCallback("update_dropdown",
                                     Ended("uncaught", options.raised, FALSE))
                     /\ UNCHANGED layout
                ELSE /\ cycle' = EndCallback("update_dropdown",
                                     Ended("returned", "", FALSE))
                     /\ layout' = [layout EXCEPT !.options = options.value]
    /\ UNCHANGED <<cases_df, deaths_df, cities, figures, op, arg, ret>>

\* @cache.memoize(): the figures stored for these arguments when there are
\* some; else the body runs and its return value is stored.
UpdateFigureMemoized ==
    /\ "update_figure" \in cycle.queue
    /\ LET stored == {e \in cache.memo :
                         e.cities = cities /\ e.ticker = layout.ticker}
       IN IF stored # {}
          THEN /\ layout' = [layout EXCEPT !.graph =
                                (CHOOSE e \in stored : TRUE).figures]
               /\ cycle' = EndCallback("update_figure",
                               Ended("returned", "", FALSE))
               /\ UNCHANGED cache
          ELSE \E response \in Responses, raises \in BOOLEAN :
                  LET m == update_metrics(cache, response, cycle.clock)
                      figs == update_figure(cases_df, deaths_df, cities, ~raises)
                  IN /\ raises =>
                           /\ m.raised = ""
                           /\ reshapes_empty(cases_df, deaths_df, cities)
                     /\ IF m.raised # ""
                        THEN /\ cache' = m.cache
                             /\ cycle' = EndCallback("update_figure",
                                             Ended("uncaught", m.raised, TRUE))
                             /\ UNCHANGED layout
                        ELSE IF figs.branch = "raised"
                        THEN /\ cache' = m.cache
                             /\ cycle' = EndCallback("update_figure",
                                             Ended("uncaught", "ValueError", FALSE))
                             /\ UNCHANGED layout
                        ELSE /\ cache' = [m.cache EXCEPT !.memo = @ \cup
                                             {[cities |-> cities,
                                               ticker |-> layout.ticker,
                                               figures |-> figs]}]
                             /\ cycle' = EndCallback("update_figure",
                                             Ended("returned", "", FALSE))
                             /\ layout' = [layout EXCEPT !.graph = figs]
    /\ UNCHANGED <<cases_df, deaths_df, cities, figures, op, arg, ret>>

\* CACHE_DEFAULT_TIMEOUT passes for some of the entries.
CacheTimeout ==
    /\ \E metrics \in BOOLEAN, expired \in SUBSET cache.memo :
          /\ (metrics /\ cache.held) \/ expired # {}
          /\ cache' = IF metrics
                      THEN [CacheEmpty EXCEPT !.memo = cache.memo \ expired]
                      ELSE [cache EXCEPT !.memo = @ \ expired]
    /\ UNCHANGED <<cases_df, deaths_df, cities, figures, op, arg, ret, layout, cycle>>

CycleCaseRows ==
    [city : DataCities \cup {NaN}, reported_date : 1..2,
     age : {"30s"}, sex : {"Female"}]

InitCycle ==
    /\ cases_df \in SeqsUpTo(CycleCaseRows, MaxCycleRows)
    /\ deaths_df = SampleDeaths
    /\ cities = NoChoice
    /\ figures = [branch |-> "none"]
    /\ op = "none" /\ arg = None /\ ret = None
    /\ NoSession

NextCycle ==
    \/ UpdateDate
    \/ SelectCities
    \/ UpdateDropdown
    \/ UpdateFigureMemoized
    \/ CacheTimeout

SpecCycle == InitCycle /\ [][NextCycle]_vars

----------------------------------------------------------------------------
(* Claims about the reporting cycle *)

\* C11 as stated: a callback whose update_metrics call failed ends with the
\* "data temporarily unavailable" notice, none with an uncaught exception,
\* and the cache holds no failed result.
C11_Original ==
    /\ \A cb \in Callbacks :
          cycle.ended[cb].fetch_failed => cycle.ended[cb].how = "unavailable"
    /\ cache.held => cache.raised = ""
    /\ \A e \in cache.memo : e.figures.branch # "raised"

====
